---- MODULE Spec2Model ----
(***************************************************************************)
(* A model of pelite's pe64::Pe trait (src/src/pe64/pe.rs): the address    *)
(* conversions between Rva, Va and file offset, the header validator       *)
(* validate_headers, and the typed array reads built on the view           *)
(* primitive (slice / read).                                               *)
(*                                                                         *)
(* Integer widths are scaled so that every value can be enumerated: a u32  *)
(* (Rva, the section header fields, SizeOfImage, SizeOfHeaders) ranges     *)
(* over 0..MaxRva and wraps modulo RvaMod; a u64 (Va, ImageBase) and a     *)
(* usize (64-bit target) range over 0..VaMod-1 with VaMod = RvaMod^2, as   *)
(* 2^64 = (2^32)^2.  Rust arithmetic overflow is not undefined: a build    *)
(* with overflow checks (the debug profile) panics at the first operation  *)
(* that overflows, a build without them (release) wraps.  Every outcome    *)
(* below carries the wrapped result together with the flag ovf, which is   *)
(* TRUE exactly when the checked build panics instead of returning.        *)
(***************************************************************************)
EXTENDS Integers, Sequences, FiniteSets, TLC

VARIABLES image, call, prev, rd

vars == <<image, call, prev, rd>>

\* ------------------------------------------------------------------------
\* Bounds of the model.

\* Largest value of a (scaled) u32.
MaxRva == 2
\* Largest number of section headers in an enumerated section table.
MaxSections == 2
\* Largest length, in bytes, of a view returned by slice / read.
MaxView == 4
\* Largest size_of::<T>() of an element type of the typed array reads.
MaxElem == 2

RvaMod == MaxRva + 1
VaMod == RvaMod * RvaMod
UsizeMod == VaMod

Rva == 0 .. (RvaMod - 1)
Va == 0 .. (VaMod - 1)
Usize == 0 .. (UsizeMod - 1)

Max(a, b) == IF a >= b THEN a ELSE b
Min(a, b) == IF a <= b THEN a ELSE b

\* ------------------------------------------------------------------------
\* Outcomes.  tag is "Ok" or the Error variant; val the Ok value; ovf whether
\* an arithmetic operation overflowed on the way (a panic under overflow
\* checks); lossy whether an `as` cast dropped high bits; sect the index of the
\* section header that decided the call (0: none did).

Outcome(tag, val, ovf, lossy, sect) ==
    [tag |-> tag, val |-> val, ovf |-> ovf, lossy |-> lossy, sect |-> sect]

Ok(val) == Outcome("Ok", val, FALSE, FALSE, 0)
Err(e) == Outcome(e, 0, FALSE, FALSE, 0)

\* ------------------------------------------------------------------------
\* Address conversions.

\* rva_in_section with the raw data taken to end one byte later.
rva_in_section_inclusive(it, rva, i, ovf1) ==
    LET raw == it.VirtualAddress + it.SizeOfRawData
        off == rva - it.VirtualAddress + it.PointerToRawData
    IN  IF rva <= raw % RvaMod
        THEN Outcome("Ok", off % RvaMod,
                     ovf1 \/ raw >= RvaMod \/ off >= RvaMod, FALSE, i)
        ELSE Outcome("ZeroFill", 0, ovf1 \/ raw >= RvaMod, FALSE, i)

\* What rva_to_file_offset returns once section header i (it) contains rva:
\* the file offset when rva lies in the raw data, ZeroFill past it.  ovf1
\* tells whether the scan overflowed up to and including VirtualEnd of it.
rva_in_section(it, rva, i, ovf1) ==
    LET raw == it.VirtualAddress + it.SizeOfRawData
        off == rva - it.VirtualAddress + it.PointerToRawData
    IN  IF rva < raw % RvaMod
        THEN Outcome("Ok", off % RvaMod,
                     ovf1 \/ raw >= RvaMod \/ off >= RvaMod, FALSE, i)
        ELSE Outcome("ZeroFill", 0, ovf1 \/ raw >= RvaMod, FALSE, i)

\* The outcome of the scan of rva_to_file_offset from section header i on,
\* ovf telling whether an earlier iteration overflowed.
RECURSIVE rva_to_file_offset_from(_, _, _, _)
rva_to_file_offset_from(img, rva, i, ovf) ==
    IF i > Len(img.sections)
    THEN IF rva < img.SizeOfHeaders
         THEN Outcome("Ok", rva, ovf, FALSE, 0)
         ELSE Outcome("OOB", 0, ovf, FALSE, 0)
    ELSE LET it == img.sections[i]
             end == it.VirtualAddress + Max(it.VirtualSize, it.SizeOfRawData)
             VirtualEnd == end % RvaMod
             ovf1 == ovf \/ end >= RvaMod
         IN  IF rva >= it.VirtualAddress /\ rva < VirtualEnd
             THEN rva_in_section(it, rva, i, ovf1)
             ELSE rva_to_file_offset_from(img, rva, i + 1, ovf1)

rva_to_file_offset(img, rva) == rva_to_file_offset_from(img, rva, 1, FALSE)

\* file_offset_in_section without the section's VirtualAddress added.
file_offset_in_section_unbased(it, file_offset, i) ==
    LET low == file_offset % RvaMod
        diff == low - it.PointerToRawData
    IN  IF file_offset < (it.PointerToRawData + it.VirtualSize) % UsizeMod
        THEN Outcome("Ok", diff % RvaMod, diff < 0, file_offset >= RvaMod, i)
        ELSE Outcome("OOB", 0, FALSE, FALSE, i)

\* What file_offset_to_rva returns once the raw data of section header i (it)
\* contains file_offset: the rva when the offset lies in the mapped part, OOB
\* past VirtualSize.  `file_offset as Rva` keeps the low 32 bits.
file_offset_in_section(it, file_offset, i) ==
    LET low == file_offset % RvaMod
        diff == low - it.PointerToRawData
        sum == (diff % RvaMod) + it.VirtualAddress
    IN  IF file_offset < (it.PointerToRawData + it.VirtualSize) % UsizeMod
        THEN Outcome("Ok", sum % RvaMod, diff < 0 \/ sum >= RvaMod,
                     file_offset >= RvaMod, i)
        ELSE Outcome("OOB", 0, FALSE, FALSE, i)

\* The outcome of the scan of file_offset_to_rva from section header i on.
\* The sums are usize sums of two u32 values and do not overflow a 64-bit
\* usize.
RECURSIVE file_offset_to_rva_from(_, _, _)
file_offset_to_rva_from(img, file_offset, i) ==
    IF i > Len(img.sections)
    THEN IF file_offset < img.SizeOfHeaders
         THEN Outcome("Ok", file_offset % RvaMod, FALSE, file_offset >= RvaMod, 0)
         ELSE Err("OOB")
    ELSE LET it == img.sections[i]
         IN  IF /\ file_offset >= it.PointerToRawData
                /\ file_offset < (it.PointerToRawData + it.SizeOfRawData) % UsizeMod
             THEN file_offset_in_section(it, file_offset, i)
             ELSE file_offset_to_rva_from(img, file_offset, i + 1)

file_offset_to_rva(img, file_offset) == file_offset_to_rva_from(img, file_offset, 1)

rva_to_va(img, rva) ==
    IF rva = 0
    THEN Err("Null")
    ELSE IF rva < img.SizeOfImage
         THEN Outcome("Ok", (img.ImageBase + rva) % VaMod,
                      img.ImageBase + rva >= VaMod, FALSE, 0)
         ELSE Err("OOB")

\* va_to_rva without ImageBase subtracted.
va_to_rva_unbased(img, va) ==
    IF va = 0
    THEN Err("Null")
    ELSE IF va < img.ImageBase \/ va - img.ImageBase > img.SizeOfImage
         THEN Err("OOB")
         ELSE Outcome("Ok", va % RvaMod, FALSE, va >= RvaMod, 0)

va_to_rva(img, va) ==
    IF va = 0
    THEN Err("Null")
    ELSE IF va < img.ImageBase \/ va - img.ImageBase > img.SizeOfImage
         THEN Err("OOB")
         ELSE Outcome("Ok", (va - img.ImageBase) % RvaMod, FALSE,
                      va - img.ImageBase >= RvaMod, 0)

\* ------------------------------------------------------------------------
\* Header validation.

IMAGE_DOS_SIGNATURE == 23117
IMAGE_NT_HEADERS_SIGNATURE == 17744
IMAGE_NT_OPTIONAL_HDR_MAGIC == 523
IMAGE_NUMBEROF_DIRECTORY_ENTRIES == 16
\* mem::size_of of the pe64 header structures (OptionalHeader.DataDirectory
\* is a zero-length array: the directory entries follow the NT headers).
size_of_IMAGE_DOS_HEADER == 64
size_of_IMAGE_NT_HEADERS == 136
size_of_IMAGE_OPTIONAL_HEADER == 112
size_of_IMAGE_DATA_DIRECTORY == 8
size_of_IMAGE_SECTION_HEADER == 40
\* The sanity ceilings of validate_headers.
MaxLfanew == 16777216
MaxNumberOfSections == 96

\* validate_headers with the section table's bounds checked before the
\* section count's ceiling.
validate_headers_table_first(img) ==
    IF size_of_IMAGE_DOS_HEADER > img.len THEN Err("OOB")
    ELSE IF img.e_magic # IMAGE_DOS_SIGNATURE THEN Err("BadMagic")
    ELSE IF img.e_lfanew % 4 # 0 THEN Err("Misalign")
    ELSE IF img.e_lfanew > MaxLfanew THEN Err("Insanity")
    ELSE
    LET nt_end == img.e_lfanew + size_of_IMAGE_NT_HEADERS IN
    IF nt_end > img.len THEN Err("OOB")
    ELSE IF \/ img.Signature # IMAGE_NT_HEADERS_SIGNATURE
            \/ img.Magic # IMAGE_NT_OPTIONAL_HDR_MAGIC THEN Err("BadMagic")
    ELSE IF img.SizeOfHeaders > img.SizeOfImage THEN Err("Insanity")
    ELSE
    LET num_rva_sizes == Min(img.NumberOfRvaAndSizes, IMAGE_NUMBEROF_DIRECTORY_ENTRIES)
        size_of_data_dir == num_rva_sizes * size_of_IMAGE_DATA_DIRECTORY
        size_of_sections == img.NumberOfSections * size_of_IMAGE_SECTION_HEADER
        start_of_sections ==
            img.e_lfanew
            + (size_of_IMAGE_NT_HEADERS - size_of_IMAGE_OPTIONAL_HEADER)
            + img.SizeOfOptionalHeader
    IN
    IF nt_end + size_of_data_dir > img.len THEN Err("OOB")
    ELSE IF size_of_sections + start_of_sections > img.len THEN Err("OOB")
    ELSE IF img.NumberOfSections > MaxNumberOfSections THEN Err("Insanity")
    ELSE Ok(img.SizeOfImage)

\* img.len is image.len(); the other fields are the header fields the bytes
\* hold (read only once the buffer is known to hold them).
validate_headers(img) ==
    IF size_of_IMAGE_DOS_HEADER > img.len THEN Err("OOB")
    ELSE IF img.e_magic # IMAGE_DOS_SIGNATURE THEN Err("BadMagic")
    ELSE IF img.e_lfanew % 4 # 0 THEN Err("Misalign")
    ELSE IF img.e_lfanew > MaxLfanew THEN Err("Insanity")
    ELSE
    LET nt_end == img.e_lfanew + size_of_IMAGE_NT_HEADERS IN
    IF nt_end > img.len THEN Err("OOB")
    ELSE IF \/ img.Signature # IMAGE_NT_HEADERS_SIGNATURE
            \/ img.Magic # IMAGE_NT_OPTIONAL_HDR_MAGIC THEN Err("BadMagic")
    ELSE IF img.SizeOfHeaders > img.SizeOfImage THEN Err("Insanity")
    ELSE
    LET num_rva_sizes == Min(img.NumberOfRvaAndSizes, IMAGE_NUMBEROF_DIRECTORY_ENTRIES)
        size_of_data_dir == num_rva_sizes * size_of_IMAGE_DATA_DIRECTORY
    IN
    IF nt_end + size_of_data_dir > img.len THEN Err("OOB")
    ELSE IF img.NumberOfSections > MaxNumberOfSections THEN Err("Insanity")
    ELSE
    LET size_of_sections == img.NumberOfSections * size_of_IMAGE_SECTION_HEADER
        start_of_sections ==
            img.e_lfanew
            + (size_of_IMAGE_NT_HEADERS - size_of_IMAGE_OPTIONAL_HEADER)
            + img.SizeOfOptionalHeader
    IN
    IF size_of_sections + start_of_sections > img.len THEN Err("OOB")
    ELSE Ok(img.SizeOfImage)

\* ------------------------------------------------------------------------
\* Images.

Section ==
    [VirtualAddress : Rva, VirtualSize : Rva,
     PointerToRawData : Rva, SizeOfRawData : Rva]

SectionTables(n) == [1 .. n -> Section]

\* A buffer that holds every header at its usual place: e_lfanew right after
\* the DOS header, sixteen directory entries, the section table after them.
Image(base, size, hdrs, sects) ==
    [len |-> 4096,
     e_magic |-> IMAGE_DOS_SIGNATURE,
     e_lfanew |-> size_of_IMAGE_DOS_HEADER,
     Signature |-> IMAGE_NT_HEADERS_SIGNATURE,
     Magic |-> IMAGE_NT_OPTIONAL_HDR_MAGIC,
     SizeOfOptionalHeader |-> 240,
     NumberOfSections |-> Len(sects),
     NumberOfRvaAndSizes |-> IMAGE_NUMBEROF_DIRECTORY_ENTRIES,
     SizeOfHeaders |-> hdrs,
     SizeOfImage |-> size,
     ImageBase |-> base,
     sections |-> sects]

NoCall == [op |-> "none", arg |-> 0, res |-> Err("none")]
Call(op, arg, res) == [op |-> op, arg |-> arg, res |-> res]

NoRead == [pc |-> "idle"]

\* ------------------------------------------------------------------------
\* The view primitive and the typed array reads.

\* A byte of a view; a view is a sequence of bytes.
Byte == {0, 1}
Views == UNION {[1 .. n -> Byte] : n \in 0 .. MaxView}

\* An element type T: size_of::<T>() and align_of::<T>().
ElemTypes == {t \in [size : 0 .. MaxElem, align : {1, 2}] : t.size % t.align = 0}
\* The values of an element of size sz, as its bytes.
ElemValues(sz) == [1 .. sz -> Byte]

Res(tag, val) == [tag |-> tag, val |-> val]

\* What the view primitive may return for a request, by its contract: Null
\* for a null address; otherwise an error, or a view of at least min_size_of
\* bytes (the longest run available at the address, which depends on the
\* image held by the implementor).
view(addr, min_size_of, align) ==
    IF addr = 0
    THEN {Res("Null", <<>>)}
    ELSE {Res("OOB", <<>>), Res("ZeroFill", <<>>)}
         \cup (IF align > 1 THEN {Res("Misalign", <<>>)} ELSE {})
         \cup {Res("Ok", b) : b \in {v \in Views : Len(v) >= min_size_of}}

slice(rva, min_size_of, align) == view(rva, min_size_of, align)
read(va, min_size_of, align) == view(va, min_size_of, align)

\* A request made to the view primitive.
Request(addr, min_size_of, align) ==
    [addr |-> addr, min_size_of |-> min_size_of, align |-> align]

\* usize::checked_mul.
checked_mul(a, b) ==
    IF a * b >= UsizeMod THEN [some |-> FALSE, val |-> 0] ELSE [some |-> TRUE, val |-> a * b]

\* The byte k (from 1) of a view.  No read of the code lies past the view (a
\* read that did would be undefined; it reads as 0 here).
ByteAt(bytes, k) == IF k <= Len(bytes) THEN bytes[k] ELSE 0
\* The element of size sz at byte offset `offset` of a view.
ElemAt(bytes, sz, offset) == [j \in 1 .. sz |-> ByteAt(bytes, offset + j)]
\* slice::from_raw_parts(bytes.as_ptr() as *const T, len).
from_raw_parts(bytes, sz, len) == [i \in 1 .. len |-> ElemAt(bytes, sz, (i - 1) * sz)]

\* The state of a typed read: pc ("loop" inside the loop of a *_slice_f,
\* "done" once returned), the entry point op and its arguments (address, T,
\* the length n of a fixed-length read, the set stop of element values on
\* which the callable returns true), the requests made to the view primitive,
\* the view it returned, the loop counter len, the elements the callable was
\* called on (index and byte range), and the result.
Read(pc, op, addr, T, n, stop, requests, v, len, calls, res) ==
    [pc |-> pc, op |-> op, addr |-> addr, T |-> T, n |-> n, stop |-> stop,
     requests |-> requests, view |-> v, len |-> len, calls |-> calls, res |-> res]

NoView == Res("none", <<>>)

\* derva_slice without the overflow check on size_of::<T>() * len.
derva_slice_wrapping(rva, T, len, unsafe_alignment) ==
    LET min_size_of == (T.size * len) % UsizeMod
        align == IF unsafe_alignment THEN 1 ELSE T.align
    IN  {Read("done", "derva_slice", rva, T, len, {},
              <<Request(rva, min_size_of, align)>>, v, 0, <<>>,
              IF v.tag = "Ok" THEN Res("Ok", from_raw_parts(v.val, T.size, len)) ELSE v) :
            v \in slice(rva, min_size_of, align)}

\* The states in which derva_slice::<T>(rva, len) may return.
derva_slice(rva, T, len, unsafe_alignment) ==
    LET min_size_of == checked_mul(T.size, len)
        align == IF unsafe_alignment THEN 1 ELSE T.align
    IN  IF ~min_size_of.some
        THEN {Read("done", "derva_slice", rva, T, len, {}, <<>>, NoView, 0, <<>>,
                   Res("Overflow", <<>>))}
        ELSE {Read("done", "derva_slice", rva, T, len, {},
                   <<Request(rva, min_size_of.val, align)>>, v, 0, <<>>,
                   IF v.tag = "Ok"
                   THEN Res("Ok", from_raw_parts(v.val, T.size, len))
                   ELSE v) :
                 v \in slice(rva, min_size_of.val, align)}

\* The states in which deref_slice::<T>(ptr, len) may return.
deref_slice(ptr, T, len, unsafe_alignment) ==
    LET min_size_of == checked_mul(T.size, len)
        align == IF unsafe_alignment THEN 1 ELSE T.align
    IN  IF ~min_size_of.some
        THEN {Read("done", "deref_slice", ptr, T, len, {}, <<>>, NoView, 0, <<>>,
                   Res("Overflow", <<>>))}
        ELSE {Read("done", "deref_slice", ptr, T, len, {},
                   <<Request(ptr, min_size_of.val, align)>>, v, 0, <<>>,
                   IF v.tag = "Ok"
                   THEN Res("Ok", from_raw_parts(v.val, T.size, len))
                   ELSE v) :
                 v \in read(ptr, min_size_of.val, align)}

\* The states of derva_slice_f::<T>(rva, f) once the view primitive has
\* answered: returned with its error, or about to enter the loop with len = 0.
derva_slice_f(rva, T, stop, unsafe_alignment) ==
    LET align == IF unsafe_alignment THEN 1 ELSE T.align
    IN  {Read(IF v.tag = "Ok" THEN "loop" ELSE "done", "derva_slice_f", rva, T, 0, stop,
              <<Request(rva, 0, align)>>, v, 0, <<>>,
              IF v.tag = "Ok" THEN NoView ELSE v) :
            v \in slice(rva, 0, align)}

\* The states of deref_slice_f::<T>(ptr, f) once the view primitive has
\* answered.
deref_slice_f(ptr, T, stop, unsafe_alignment) ==
    LET align == IF unsafe_alignment THEN 1 ELSE T.align
    IN  {Read(IF v.tag = "Ok" THEN "loop" ELSE "done", "deref_slice_f", ptr, T, 0, stop,
              <<Request(ptr, 0, align)>>, v, 0, <<>>,
              IF v.tag = "Ok" THEN NoView ELSE v) :
            v \in read(ptr, 0, align)}

\* derva_slice_s / deref_slice_s: the callable is equality with the sentinel.
derva_slice_s(rva, T, sentinel, unsafe_alignment) ==
    {[r EXCEPT !.op = "derva_slice_s"] :
        r \in derva_slice_f(rva, T, {sentinel}, unsafe_alignment)}
deref_slice_s(ptr, T, sentinel, unsafe_alignment) ==
    {[r EXCEPT !.op = "deref_slice_s"] :
        r \in deref_slice_f(ptr, T, {sentinel}, unsafe_alignment)}

\* The loop body with the bounds check made on the element's first byte only.
derva_slice_f_iter_first_byte(r) ==
    LET bytes == r.view.val
        offset == r.len * r.T.size
    IN  IF offset >= Len(bytes)
        THEN [r EXCEPT !.pc = "done", !.res = Res("OOB", <<>>)]
        ELSE LET called == Append(r.calls, [index |-> r.len, from |-> offset,
                                            to |-> offset + r.T.size])
             IN  IF ElemAt(bytes, r.T.size, offset) \in r.stop
                 THEN [r EXCEPT !.pc = "done", !.calls = called,
                                !.res = Res("Ok", from_raw_parts(bytes, r.T.size, r.len))]
                 ELSE [r EXCEPT !.calls = called, !.len = r.len + 1]

\* The loop body returning the array with its terminating element.
derva_slice_f_iter_inclusive(r) ==
    LET bytes == r.view.val
        offset == r.len * r.T.size
    IN  IF offset + r.T.size > Len(bytes)
        THEN [r EXCEPT !.pc = "done", !.res = Res("OOB", <<>>)]
        ELSE LET called == Append(r.calls, [index |-> r.len, from |-> offset,
                                            to |-> offset + r.T.size])
             IN  IF ElemAt(bytes, r.T.size, offset) \in r.stop
                 THEN [r EXCEPT !.pc = "done", !.calls = called,
                                !.res = Res("Ok", from_raw_parts(bytes, r.T.size, r.len + 1))]
                 ELSE [r EXCEPT !.calls = called, !.len = r.len + 1]

\* One iteration of the loop of derva_slice_f in state r.
derva_slice_f_iter(r) ==
    LET bytes == r.view.val
        offset == r.len * r.T.size
    IN  IF offset + r.T.size > Len(bytes)
        THEN [r EXCEPT !.pc = "done", !.res = Res("OOB", <<>>)]
        ELSE LET called == Append(r.calls, [index |-> r.len, from |-> offset,
                                            to |-> offset + r.T.size])
             IN  IF ElemAt(bytes, r.T.size, offset) \in r.stop
                 THEN [r EXCEPT !.pc = "done", !.calls = called,
                                !.res = Res("Ok", from_raw_parts(bytes, r.T.size, r.len))]
                 ELSE [r EXCEPT !.calls = called, !.len = r.len + 1]

\* One iteration of the loop of deref_slice_f in state r.
deref_slice_f_iter(r) ==
    LET bytes == r.view.val
        offset == r.len * r.T.size
    IN  IF offset + r.T.size > Len(bytes)
        THEN [r EXCEPT !.pc = "done", !.res = Res("OOB", <<>>)]
        ELSE LET called == Append(r.calls, [index |-> r.len, from |-> offset,
                                            to |-> offset + r.T.size])
             IN  IF ElemAt(bytes, r.T.size, offset) \in r.stop
                 THEN [r EXCEPT !.pc = "done", !.calls = called,
                                !.res = Res("Ok", from_raw_parts(bytes, r.T.size, r.len))]
                 ELSE [r EXCEPT !.calls = called, !.len = r.len + 1]

\* ------------------------------------------------------------------------
\* Rva <-> Va on a validated image without sections.  The image is immutable
\* and the conversions are pure, so a behaviour is one call of a caller's own
\* argument, possibly followed by the conversion back of what it returned.

InitVa ==
    /\ image \in {img \in {Image(b, s, 0, <<>>) : b \in Va, s \in Rva} :
                     validate_headers(img).tag = "Ok"}
    /\ call = NoCall
    /\ prev = NoCall
    /\ rd = NoRead

\* A caller converts an rva of its own.
CallRvaToVa ==
    \E rva \in Rva :
        /\ call = NoCall
        /\ call' = Call("rva_to_va", rva, rva_to_va(image, rva))
        /\ prev' = NoCall
        /\ UNCHANGED <<image, rd>>

\* A caller converts a va of its own.
CallVaToRva ==
    \E va \in Va :
        /\ call = NoCall
        /\ call' = Call("va_to_rva", va, va_to_rva(image, va))
        /\ prev' = NoCall
        /\ UNCHANGED <<image, rd>>

\* A caller converts back the va that rva_to_va returned.
ThenVaToRva ==
    /\ call.op = "rva_to_va"
    /\ call.res.tag = "Ok"
    /\ call' = Call("va_to_rva", call.res.val, va_to_rva(image, call.res.val))
    /\ prev' = call
    /\ UNCHANGED <<image, rd>>

\* A caller converts back the rva that va_to_rva returned.
ThenRvaToVa ==
    /\ call.op = "va_to_rva"
    /\ call.res.tag = "Ok"
    /\ call' = Call("rva_to_va", call.res.val, rva_to_va(image, call.res.val))
    /\ prev' = call
    /\ UNCHANGED <<image, rd>>

NextVa == CallRvaToVa \/ CallVaToRva \/ ThenVaToRva \/ ThenRvaToVa

SpecVa == InitVa /\ [][NextVa]_vars

\* ------------------------------------------------------------------------
\* Rva <-> file offset on a validated image with a section table.

InitFile ==
    /\ \E h \in Rva, n \in 0 .. MaxSections :
           \E t \in SectionTables(n) :
               /\ image = Image(0, MaxRva, h, t)
               /\ validate_headers(image).tag = "Ok"
    /\ call = NoCall
    /\ prev = NoCall
    /\ rd = NoRead

CallRvaToFileOffset ==
    \E rva \in Rva :
        /\ call = NoCall
        /\ call' = Call("rva_to_file_offset", rva, rva_to_file_offset(image, rva))
        /\ prev' = NoCall
        /\ UNCHANGED <<image, rd>>

CallFileOffsetToRva ==
    \E file_offset \in Usize :
        /\ call = NoCall
        /\ call' = Call("file_offset_to_rva", file_offset,
                        file_offset_to_rva(image, file_offset))
        /\ prev' = NoCall
        /\ UNCHANGED <<image, rd>>

\* A caller converts back the file offset that rva_to_file_offset returned.
ThenFileOffsetToRva ==
    /\ call.op = "rva_to_file_offset"
    /\ call.res.tag = "Ok"
    /\ call' = Call("file_offset_to_rva", call.res.val,
                    file_offset_to_rva(image, call.res.val))
    /\ prev' = call
    /\ UNCHANGED <<image, rd>>

NextFile == CallRvaToFileOffset \/ CallFileOffsetToRva \/ ThenFileOffsetToRva

SpecFile == InitFile /\ [][NextFile]_vars

\* ------------------------------------------------------------------------
\* validate_headers on arbitrary buffers.

\* Offsets past e_lfanew at which a buffer of the enumeration ends: around the
\* end of the NT headers (136), of sixteen directory entries (264), of the
\* section table after a usual optional header (264 + 40 n), and far beyond.
LenDeltas == {135, 136, 263, 264, 303, 304, 4000, 70000}

Buffers ==
    {[len |-> l, e_magic |-> m, e_lfanew |-> e, Signature |-> sg, Magic |-> mg,
      SizeOfOptionalHeader |-> so, NumberOfSections |-> ns,
      NumberOfRvaAndSizes |-> nr, SizeOfHeaders |-> sh, SizeOfImage |-> si,
      ImageBase |-> 0, sections |-> <<>>] :
        l \in {0, 63, 64}
              \cup {x + d : x \in {64, MaxLfanew}, d \in LenDeltas},
        m \in {IMAGE_DOS_SIGNATURE, 0},
        e \in {62, 64, MaxLfanew, MaxLfanew + 2, MaxLfanew + 4},
        sg \in {IMAGE_NT_HEADERS_SIGNATURE, 0},
        mg \in {IMAGE_NT_OPTIONAL_HDR_MAGIC, 267},
        so \in {0, 240, 65535},
        ns \in {0, 1, MaxNumberOfSections, MaxNumberOfSections + 1},
        nr \in {0, IMAGE_NUMBEROF_DIRECTORY_ENTRIES, IMAGE_NUMBEROF_DIRECTORY_ENTRIES + 1},
        sh \in {0, MaxRva},
        si \in {0, MaxRva}}

InitValidate ==
    /\ image \in Buffers
    /\ call = NoCall
    /\ prev = NoCall
    /\ rd = NoRead

CallValidateHeaders ==
    /\ call = NoCall
    /\ call' = Call("validate_headers", image.len, validate_headers(image))
    /\ UNCHANGED <<image, prev, rd>>

NextValidate == CallValidateHeaders

SpecValidate == InitValidate /\ [][NextValidate]_vars

\* ------------------------------------------------------------------------
\* The header accessors of a validated buffer.  Each returns a reference or a
\* slice made from a raw pointer: the model keeps the byte range it covers
\* (begin inclusive, end exclusive, offsets from the start of the buffer) and
\* its number of elements.

\* Field offsets of the header structs: the optional header follows the
\* signature (4 bytes) and the file header (20 bytes); DataDirectory is the
\* zero-length array that ends the optional header.
offset_of_OptionalHeader == 24
offset_of_DataDirectory == 112

Range(begin, len, size) ==
    [tag |-> "Ok", begin |-> begin, end |-> begin + len * size, len |-> len]

dos_header(img) == Range(0, 1, size_of_IMAGE_DOS_HEADER)

nt_headers(img) == Range(dos_header(img).begin + img.e_lfanew, 1, size_of_IMAGE_NT_HEADERS)

optional_header(img) ==
    Range(nt_headers(img).begin + offset_of_OptionalHeader, 1, size_of_IMAGE_OPTIONAL_HEADER)

\* A section table taken to start SizeOfOptionalHeader bytes after the END of
\* the NT headers instead of after the start of the optional header.
section_headers_after_nt_headers(img) ==
    Range(nt_headers(img).end + img.SizeOfOptionalHeader,
          img.NumberOfSections, size_of_IMAGE_SECTION_HEADER)

section_headers(img) ==
    LET begin == optional_header(img).begin + img.SizeOfOptionalHeader IN
    Range(begin, img.NumberOfSections, size_of_IMAGE_SECTION_HEADER)

data_directory(img) ==
    LET len == Min(img.NumberOfRvaAndSizes, IMAGE_NUMBEROF_DIRECTORY_ENTRIES) IN
    Range(optional_header(img).begin + offset_of_DataDirectory, len,
          size_of_IMAGE_DATA_DIRECTORY)

\* The offsets validate_headers computes for its bounds checks.
nt_end(img) == img.e_lfanew + size_of_IMAGE_NT_HEADERS

size_of_data_dir(img) ==
    Min(img.NumberOfRvaAndSizes, IMAGE_NUMBEROF_DIRECTORY_ENTRIES)
        * size_of_IMAGE_DATA_DIRECTORY

size_of_sections(img) == img.NumberOfSections * size_of_IMAGE_SECTION_HEADER

start_of_sections(img) ==
    img.e_lfanew
    + (size_of_IMAGE_NT_HEADERS - size_of_IMAGE_OPTIONAL_HEADER)
    + img.SizeOfOptionalHeader

\* The accessors are methods of an image handle, which exists only for a
\* buffer that validate_headers accepted.
Validated ==
    \/ call.op = "validate_headers" /\ call.res.tag = "Ok"
    \/ prev.op = "validate_headers" /\ prev.res.tag = "Ok"

CallDosHeader ==
    /\ Validated
    /\ call' = Call("dos_header", 0, dos_header(image))
    /\ prev' = IF call.op = "validate_headers" THEN call ELSE prev
    /\ UNCHANGED <<image, rd>>

CallNtHeaders ==
    /\ Validated
    /\ call' = Call("nt_headers", 0, nt_headers(image))
    /\ prev' = IF call.op = "validate_headers" THEN call ELSE prev
    /\ UNCHANGED <<image, rd>>

CallOptionalHeader ==
    /\ Validated
    /\ call' = Call("optional_header", 0, optional_header(image))
    /\ prev' = IF call.op = "validate_headers" THEN call ELSE prev
    /\ UNCHANGED <<image, rd>>

CallSectionHeaders ==
    /\ Validated
    /\ call' = Call("section_headers", 0, section_headers(image))
    /\ prev' = IF call.op = "validate_headers" THEN call ELSE prev
    /\ UNCHANGED <<image, rd>>

CallDataDirectory ==
    /\ Validated
    /\ call' = Call("data_directory", 0, data_directory(image))
    /\ prev' = IF call.op = "validate_headers" THEN call ELSE prev
    /\ UNCHANGED <<image, rd>>

NextHeaders ==
    \/ CallValidateHeaders
    \/ CallDosHeader
    \/ CallNtHeaders
    \/ CallOptionalHeader
    \/ CallSectionHeaders
    \/ CallDataDirectory

SpecHeaders == InitValidate /\ [][NextHeaders]_vars

\* ------------------------------------------------------------------------
\* The typed array reads on a validated image.  A behaviour is one read: the
\* entry point, then for a *_slice_f the iterations of its loop.

InitRead ==
    /\ image = Image(0, MaxRva, 0, <<>>)
    /\ validate_headers(image).tag = "Ok"
    /\ call = NoCall
    /\ prev = NoCall
    /\ rd = NoRead

CallDervaSlice ==
    /\ rd = NoRead
    /\ \E rva \in Rva, T \in ElemTypes, len \in Usize, unsafe_alignment \in BOOLEAN :
          rd' \in derva_slice(rva, T, len, unsafe_alignment)
    /\ UNCHANGED <<image, call, prev>>

CallDerefSlice ==
    /\ rd = NoRead
    /\ \E ptr \in Va, T \in ElemTypes, len \in Usize, unsafe_alignment \in BOOLEAN :
          rd' \in deref_slice(ptr, T, len, unsafe_alignment)
    /\ UNCHANGED <<image, call, prev>>

CallDervaSliceF ==
    /\ rd = NoRead
    /\ \E rva \in Rva, T \in ElemTypes, unsafe_alignment \in BOOLEAN :
          \E stop \in SUBSET ElemValues(T.size) :
              rd' \in derva_slice_f(rva, T, stop, unsafe_alignment)
    /\ UNCHANGED <<image, call, prev>>

CallDerefSliceF ==
    /\ rd = NoRead
    /\ \E ptr \in Va, T \in ElemTypes, unsafe_alignment \in BOOLEAN :
          \E stop \in SUBSET ElemValues(T.size) :
              rd' \in deref_slice_f(ptr, T, stop, unsafe_alignment)
    /\ UNCHANGED <<image, call, prev>>

CallDervaSliceS ==
    /\ rd = NoRead
    /\ \E rva \in Rva, T \in ElemTypes, unsafe_alignment \in BOOLEAN :
          \E sentinel \in ElemValues(T.size) :
              rd' \in derva_slice_s(rva, T, sentinel, unsafe_alignment)
    /\ UNCHANGED <<image, call, prev>>

CallDerefSliceS ==
    /\ rd = NoRead
    /\ \E ptr \in Va, T \in ElemTypes, unsafe_alignment \in BOOLEAN :
          \E sentinel \in ElemValues(T.size) :
              rd' \in deref_slice_s(ptr, T, sentinel, unsafe_alignment)
    /\ UNCHANGED <<image, call, prev>>

\* The loop of a zero-sized T whose callable never returns true does not
\* end; the model follows it for MaxView + 1 iterations.
DervaSliceFIter ==
    /\ rd.pc = "loop"
    /\ rd.op \in {"derva_slice_f", "derva_slice_s"}
    /\ rd.len <= MaxView
    /\ rd' = derva_slice_f_iter(rd)
    /\ UNCHANGED <<image, call, prev>>

DerefSliceFIter ==
    /\ rd.pc = "loop"
    /\ rd.op \in {"deref_slice_f", "deref_slice_s"}
    /\ rd.len <= MaxView
    /\ rd' = deref_slice_f_iter(rd)
    /\ UNCHANGED <<image, call, prev>>

NextRead ==
    \/ CallDervaSlice \/ CallDerefSlice
    \/ CallDervaSliceF \/ CallDerefSliceF
    \/ CallDervaSliceS \/ CallDerefSliceS
    \/ DervaSliceFIter \/ DerefSliceFIter

SpecRead == InitRead /\ [][NextRead]_vars

\* The call runs to its end: an iteration that can be taken is taken.
SpecReadFair ==
    SpecRead /\ WF_vars(DervaSliceFIter) /\ WF_vars(DerefSliceFIter)

\* ------------------------------------------------------------------------
\* Properties of the Rva <-> Va conversions (SpecVa).

\* The call converts back what the previous call returned.
RoundTrip(first, second) == prev.op = first /\ call.op = second

\* C1, as stated: rva_to_va followed by va_to_rva returns r for every r with
\* 0 < r < SizeOfImage, and va_to_rva followed by rva_to_va returns v for
\* every v with ImageBase <= v < ImageBase + SizeOfImage.
C1_RoundTripLaw ==
    /\ (/\ call.op = "rva_to_va"
        /\ prev = NoCall
        /\ 0 < call.arg
        /\ call.arg < image.SizeOfImage
        /\ image.ImageBase + call.arg < VaMod)
       => call.res.tag = "Ok"
    /\ (/\ RoundTrip("rva_to_va", "va_to_rva")
        /\ 0 < prev.arg
        /\ prev.arg < image.SizeOfImage
        /\ ~prev.res.ovf)
       => call.res = Ok(prev.arg)
    /\ (/\ call.op = "va_to_rva"
        /\ prev = NoCall
        /\ image.ImageBase <= call.arg
        /\ call.arg < image.ImageBase + image.SizeOfImage
        /\ call.arg # 0)
       => call.res.tag = "Ok"
    /\ (/\ RoundTrip("va_to_rva", "rva_to_va")
        /\ image.ImageBase <= prev.arg
        /\ prev.arg < image.ImageBase + image.SizeOfImage)
       => call.res = Ok(prev.arg)

\* C1, amended: rva_to_va followed by va_to_rva returns r for every r with
\* 0 < r < SizeOfImage whose sum ImageBase + r fits in 64 bits (when it does
\* not, the checked build panics and the wrapping build's round trip does not
\* return r); va_to_rva followed by rva_to_va returns v for every v with
\* ImageBase < v < ImageBase + SizeOfImage, and Err(Null) for v = ImageBase.
C1_RoundTripAmended ==
    /\ (/\ call.op = "rva_to_va"
        /\ 0 < call.arg
        /\ call.arg < image.SizeOfImage)
       => /\ call.res.tag = "Ok"
          /\ call.res.ovf = (image.ImageBase + call.arg >= VaMod)
          /\ ~call.res.ovf => call.res.val = image.ImageBase + call.arg
    /\ (/\ RoundTrip("rva_to_va", "va_to_rva")
        /\ 0 < prev.arg
        /\ prev.arg < image.SizeOfImage)
       => IF prev.res.ovf
          THEN call.res.tag \in {"Null", "OOB"}
          ELSE call.res = Ok(prev.arg)
    /\ (/\ call.op = "va_to_rva"
        /\ image.ImageBase < call.arg
        /\ call.arg < image.ImageBase + image.SizeOfImage)
       => call.res = Ok(call.arg - image.ImageBase)
    /\ (/\ RoundTrip("va_to_rva", "rva_to_va")
        /\ image.ImageBase < prev.arg
        /\ prev.arg < image.ImageBase + image.SizeOfImage)
       => call.res = Ok(prev.arg)
    /\ (/\ RoundTrip("va_to_rva", "rva_to_va")
        /\ prev.arg = image.ImageBase)
       => call.res = Err("Null")

\* A va strictly inside the image has been converted to an rva and back.
C1_Witness ==
    /\ RoundTrip("va_to_rva", "rva_to_va")
    /\ image.ImageBase < prev.arg
    /\ prev.arg < image.ImageBase + image.SizeOfImage
    /\ call.res.tag = "Ok"
    /\ call.res.val = prev.arg

\* C2: va_to_rva(va) is Err(Null) for va = 0, Ok(va - ImageBase) exactly when
\* va >= ImageBase and va - ImageBase < SizeOfImage, and Err(OOB) for every
\* other va.
C2_VaToRva ==
    call.op = "va_to_rva"
    => call.res =
         IF call.arg = 0 THEN Err("Null")
         ELSE IF /\ call.arg >= image.ImageBase
                 /\ call.arg - image.ImageBase < image.SizeOfImage
              THEN Ok(call.arg - image.ImageBase)
              ELSE Err("OOB")

\* ------------------------------------------------------------------------
\* Properties of the Rva <-> file offset conversions (SpecFile).  The ranges
\* below are ranges of integers, not of wrapped 32-bit values.

VirtualRange(it) ==
    it.VirtualAddress .. (it.VirtualAddress + Max(it.VirtualSize, it.SizeOfRawData) - 1)
RawVirtualRange(it) ==
    it.VirtualAddress .. (it.VirtualAddress + it.SizeOfRawData - 1)
ZeroFillRange(it) ==
    (it.VirtualAddress + it.SizeOfRawData) .. (it.VirtualAddress + it.VirtualSize - 1)
RawRange(it) ==
    it.PointerToRawData .. (it.PointerToRawData + it.SizeOfRawData - 1)
MappedRawRange(it) ==
    it.PointerToRawData .. (it.PointerToRawData + it.VirtualSize - 1)

Smallest(S) == IF S = {} THEN 0 ELSE CHOOSE i \in S : \A j \in S : i <= j

\* The first section header in table order whose virtual range contains rva,
\* and the first whose raw data contains the file offset (0: none).
FirstVirtual(rva) ==
    Smallest({i \in 1 .. Len(image.sections) : rva \in VirtualRange(image.sections[i])})
FirstRaw(off) ==
    Smallest({i \in 1 .. Len(image.sections) : off \in RawRange(image.sections[i])})

\* Whether VirtualAddress + max(VirtualSize, SizeOfRawData) fits in 32 bits
\* for each of the first n section headers.
SumsFit(n) ==
    \A i \in 1 .. n :
        image.sections[i].VirtualAddress
        + Max(image.sections[i].VirtualSize, image.sections[i].SizeOfRawData) < RvaMod

\* C3, as stated: file_offset_to_rva gives back every rva that
\* rva_to_file_offset mapped through a section's raw data (here: without any
\* overflow), whatever the section table.
C3_FileRoundTrip ==
    (/\ RoundTrip("rva_to_file_offset", "file_offset_to_rva")
     /\ prev.res.sect # 0
     /\ ~prev.res.ovf)
    => call.res.tag = "Ok" /\ call.res.val = prev.arg

\* C3, amended: when rva_to_file_offset(r) returns Ok(off) through section
\* header s, file_offset_to_rva(off) is decided by the first section header t
\* whose raw data contains off; it is Ok(r) when t = s and
\* r < VirtualAddress + VirtualSize of s, and Err(OOB) when t = s and r lies
\* at or past VirtualAddress + VirtualSize.
C3_FileRoundTripAmended ==
    (/\ RoundTrip("rva_to_file_offset", "file_offset_to_rva")
     /\ prev.res.sect # 0)
    => LET s == prev.res.sect
           it == image.sections[s]
           t == FirstRaw(call.arg)
       IN  /\ call.res.sect = t
           /\ ~prev.res.ovf => t # 0
           /\ t = s =>
                IF prev.arg < it.VirtualAddress + it.VirtualSize
                THEN /\ call.res.tag = "Ok"
                     /\ call.res.val = prev.arg
                     /\ ~call.res.lossy
                     /\ ~prev.res.ovf => ~call.res.ovf
                ELSE call.res.tag = "OOB"

\* Without any overflow, an rva has been mapped through the second section
\* header, whose raw data is longer than its VirtualSize and overlaps the
\* raw data of the first, and mapped back to itself.
C3_Witness ==
    /\ RoundTrip("rva_to_file_offset", "file_offset_to_rva")
    /\ prev.res.sect = 2
    /\ ~prev.res.ovf
    /\ SumsFit(2)
    /\ image.sections[2].VirtualSize < image.sections[2].SizeOfRawData
    /\ RawRange(image.sections[1]) \cap RawRange(image.sections[2]) # {}
    /\ call.res = Outcome("Ok", prev.arg, FALSE, FALSE, 2)

\* C4, as stated: an rva in the zero-filled tail of some section header of the
\* table gives Err(ZeroFill) whatever the other section headers are (here: in
\* tables none of whose sums overflows).
C4_ZeroFill ==
    (/\ call.op = "rva_to_file_offset"
     /\ SumsFit(Len(image.sections))
     /\ \E i \in 1 .. Len(image.sections) : call.arg \in ZeroFillRange(image.sections[i]))
    => call.res.tag = "ZeroFill"

\* C4, amended: an rva in the zero-filled tail of section header s gives
\* Err(ZeroFill) when s is the first section header in table order whose
\* virtual range contains the rva and the sums VirtualAddress +
\* max(VirtualSize, SizeOfRawData) of s and of the section headers before it
\* fit in 32 bits.
C4_ZeroFillAmended ==
    call.op = "rva_to_file_offset"
    => \A s \in 1 .. Len(image.sections) :
          (/\ call.arg \in ZeroFillRange(image.sections[s])
           /\ FirstVirtual(call.arg) = s
           /\ SumsFit(s))
          => call.res = Outcome("ZeroFill", 0, FALSE, FALSE, s)

\* The zero-filled tail of the second section header was hit, the first
\* section header holding raw data elsewhere.
C4_Witness ==
    /\ call.op = "rva_to_file_offset"
    /\ Len(image.sections) = 2
    /\ SumsFit(2)
    /\ call.arg \in ZeroFillRange(image.sections[2])
    /\ FirstVirtual(call.arg) = 2
    /\ image.sections[1].SizeOfRawData > 0
    /\ call.res.tag = "ZeroFill"

\* C5: rva_to_file_offset(rva) is decided by the first section header whose
\* virtual range contains rva (the file offset inside its raw data, ZeroFill
\* past it), and by the SizeOfHeaders rule when none contains it.
C5_FirstMatch ==
    call.op = "rva_to_file_offset"
    => LET s == FirstVirtual(call.arg)
           it == image.sections[s]
       IN  IF s # 0
           THEN IF call.arg \in RawVirtualRange(it)
                THEN /\ call.res.tag = "Ok"
                     /\ call.res.val = call.arg - it.VirtualAddress + it.PointerToRawData
                ELSE call.res.tag = "ZeroFill"
           ELSE IF call.arg < image.SizeOfHeaders
                THEN call.res.tag = "Ok" /\ call.res.val = call.arg
                ELSE call.res.tag = "OOB"

\* C7: no address conversion on a validated image overflows an integer or
\* narrows a value that does not fit.
C7_NoOverflow ==
    call.op \in {"rva_to_file_offset", "file_offset_to_rva", "rva_to_va", "va_to_rva"}
    => ~call.res.ovf /\ ~call.res.lossy

\* ------------------------------------------------------------------------
\* Properties of validate_headers (SpecValidate).

\* The ten checks in the order of the claim: whether check n fails on the
\* buffer, and the error it then reports.
CheckFails(n) ==
    CASE n = 1 -> image.len < size_of_IMAGE_DOS_HEADER
      [] n = 2 -> image.e_magic # IMAGE_DOS_SIGNATURE
      [] n = 3 -> image.e_lfanew % 4 # 0
      [] n = 4 -> image.e_lfanew > 16777216
      [] n = 5 -> image.len < image.e_lfanew + size_of_IMAGE_NT_HEADERS
      [] n = 6 -> \/ image.Signature # IMAGE_NT_HEADERS_SIGNATURE
                  \/ image.Magic # IMAGE_NT_OPTIONAL_HDR_MAGIC
      [] n = 7 -> image.SizeOfHeaders > image.SizeOfImage
      [] n = 8 -> image.len < image.e_lfanew + size_of_IMAGE_NT_HEADERS
                     + size_of_IMAGE_DATA_DIRECTORY * Min(image.NumberOfRvaAndSizes, 16)
      [] n = 9 -> image.NumberOfSections > 96
      [] n = 10 -> image.len < image.e_lfanew
                     + (size_of_IMAGE_NT_HEADERS - size_of_IMAGE_OPTIONAL_HEADER)
                     + image.SizeOfOptionalHeader
                     + size_of_IMAGE_SECTION_HEADER * image.NumberOfSections

CheckError ==
    <<"OOB", "BadMagic", "Misalign", "Insanity", "OOB",
      "BadMagic", "Insanity", "OOB", "Insanity", "OOB">>

FirstFailing == Smallest({n \in 1 .. 10 : CheckFails(n)})

\* C6: validate_headers returns the error of the first failing check of the
\* ten, in their order, and Ok(SizeOfImage) when none fails.
C6_CheckOrder ==
    call.op = "validate_headers"
    => call.res = IF FirstFailing = 0
                  THEN Ok(image.SizeOfImage)
                  ELSE Err(CheckError[FirstFailing])

\* A buffer on which the section count is over its ceiling and the section
\* table would not fit either has been refused as Insanity.
C6_Witness ==
    /\ call.op = "validate_headers"
    /\ FirstFailing = 9
    /\ CheckFails(10)
    /\ call.res = Err("Insanity")

\* ------------------------------------------------------------------------
\* Properties of the typed array reads (SpecRead, SpecReadFair).

\* C8: a fixed-length array read whose size_of::<T>() * len overflows usize
\* returns Err(Overflow) without any request to the view primitive, whatever
\* the address; otherwise it makes one request, at the address given, with
\* min_size_of = size_of::<T>() * len, and an array it returns has len
\* elements.
C8_FixedLength ==
    (rd.pc = "done" /\ rd.op \in {"derva_slice", "deref_slice"})
    => IF rd.T.size * rd.n >= UsizeMod
       THEN rd.res = Res("Overflow", <<>>) /\ rd.requests = <<>>
       ELSE /\ Len(rd.requests) = 1
            /\ rd.requests[1].addr = rd.addr
            /\ rd.requests[1].min_size_of = rd.T.size * rd.n
            /\ rd.res.tag = "Ok" => Len(rd.res.val) = rd.n
            /\ rd.res.tag # "Ok" => rd.res = rd.view

\* A read at the null address whose size overflows has returned Overflow.
C8_Witness ==
    /\ rd.pc = "done"
    /\ rd.op = "deref_slice"
    /\ rd.addr = 0
    /\ rd.T.size * rd.n >= UsizeMod
    /\ rd.res.tag = "Overflow"

\* The indices of the elements that lie entirely inside the view of read r
\* (all elements of a zero-sized T are the same: index 0 stands for them).
ElemIndices(r) ==
    IF r.T.size = 0 THEN {0} ELSE 0 .. ((Len(r.view.val) \div r.T.size) - 1)
\* Those on which the callable returns true.
StopIndices(r) ==
    {i \in ElemIndices(r) : ElemAt(r.view.val, r.T.size, i * r.T.size) \in r.stop}

\* A sentinel-terminated read has obtained its view.
SentinelRead ==
    /\ rd.pc \in {"loop", "done"}
    /\ rd.op \in {"derva_slice_s", "deref_slice_s"}
    /\ rd.view.tag = "Ok"

\* Every element examined so far lies inside the view, and a read that
\* returned over a view without the sentinel returned Err(OOB).
C9_InsideView ==
    SentinelRead
    => /\ \A j \in 1 .. Len(rd.calls) : rd.calls[j].to <= Len(rd.view.val)
       /\ (rd.pc = "done" /\ StopIndices(rd) = {}) => rd.res = Res("OOB", <<>>)

\* C9: a sentinel-terminated read over a view none of whose elements equals
\* the sentinel ends, returning Err(OOB), and no iteration examines an
\* element that does not lie entirely inside the view, for every element
\* size, view length and sentinel.
C9_SentinelRead ==
    /\ []C9_InsideView
    /\ (SentinelRead /\ rd.pc = "loop" /\ StopIndices(rd) = {})
          ~> (rd.pc = "done" /\ rd.res = Res("OOB", <<>>))

\* A read of two-byte elements over a view of odd length without the
\* sentinel has examined the whole elements and returned Err(OOB).
C9_Witness ==
    /\ SentinelRead
    /\ rd.pc = "done"
    /\ rd.T.size = 2
    /\ Len(rd.view.val) = 3
    /\ StopIndices(rd) = {}
    /\ Len(rd.calls) = 1
    /\ rd.res.tag = "OOB"

\* A predicate-terminated read has obtained its view.
PredicateRead ==
    /\ rd.pc \in {"loop", "done"}
    /\ rd.op \in {"derva_slice_f", "deref_slice_f"}
    /\ rd.view.tag = "Ok"

\* C10: the callable is called on the elements 0, 1, 2, ... in order, once
\* each, from the start of the view; when k is the smallest index of an
\* element inside the view on which it returns true, it is never called past
\* k and the read returns Ok of the k elements before k.
C10_PredicateRead ==
    PredicateRead
    => /\ \A j \in 1 .. Len(rd.calls) :
             /\ rd.calls[j].index = j - 1
             /\ rd.calls[j].from = (j - 1) * rd.T.size
       /\ StopIndices(rd) # {}
          => LET k == Smallest(StopIndices(rd))
             IN  /\ Len(rd.calls) <= k + 1
                 /\ rd.pc = "done"
                    => /\ Len(rd.calls) = k + 1
                       /\ rd.res = Res("Ok", [i \in 1 .. k |->
                                      ElemAt(rd.view.val, rd.T.size, (i - 1) * rd.T.size)])

\* A read has returned the one element before the terminating one, a
\* further element on which the callable returns true lying behind it.
C10_Witness ==
    /\ PredicateRead
    /\ rd.pc = "done"
    /\ rd.T.size = 2
    /\ StopIndices(rd) = {1}
    /\ Len(rd.view.val) = 4
    /\ rd.res.tag = "Ok"
    /\ Len(rd.res.val) = 1

\* ------------------------------------------------------------------------
\* C11: whenever validate_headers accepted the buffer, the NT headers, the
\* data directory of min(NumberOfRvaAndSizes, 16) entries and the
\* NumberOfSections section headers that the accessors return each end at or
\* before image.len(), and the accessors' offsets are the ones
\* validate_headers checked.
C11_AccessorsInside ==
    /\ call.op \in {"dos_header", "nt_headers", "optional_header",
                    "section_headers", "data_directory"}
           => /\ prev.res = Ok(image.SizeOfImage)
              /\ call.res.begin <= call.res.end
              /\ call.res.end <= image.len
    /\ call.op = "nt_headers"
           => /\ call.res.begin = image.e_lfanew
              /\ call.res.end = nt_end(image)
    /\ call.op = "data_directory"
           => /\ call.res.len = Min(image.NumberOfRvaAndSizes, 16)
              /\ call.res.begin = nt_end(image)
              /\ call.res.end = nt_end(image) + size_of_data_dir(image)
    /\ call.op = "section_headers"
           => /\ call.res.len = image.NumberOfSections
              /\ call.res.begin = start_of_sections(image)
              /\ call.res.end = start_of_sections(image) + size_of_sections(image)

\* A section table of one header or more that ends exactly at the end of the
\* buffer, past a full data directory.
C11_Witness ==
    /\ call.op = "section_headers"
    /\ prev.res = Ok(image.SizeOfImage)
    /\ image.NumberOfSections >= 1
    /\ image.NumberOfRvaAndSizes >= 16
    /\ image.SizeOfOptionalHeader = 240
    /\ call.res.end = image.len

====
